---- MODULE Spec2Model ----
(***************************************************************************)
(* Escrow coordination of keanemind/quid-pr-quo: the Durable Object        *)
(* EscrowBox (pledge ledger and per-user token store), the worker routes   *)
(* that call it, and the token and approval helpers.                       *)
(*                                                                         *)
(* The repository holds three generations of the Durable Object; each is   *)
(* a build of the program and `build` says which one is deployed:          *)
(*   "keyed"  src/src/escrow.ts        /store-token, /process-escrow,      *)
(*                                     pledge:<offeror>:<target> keys      *)
(*   "scan"   src/unnamed/part_005     the same routes, pledges keyed by   *)
(*                                     pledge:<offeror>:<Date.now()> and   *)
(*                                     found by a prefix scan              *)
(*   "ledger" src/unnamed/part_004     /token/<user>, /pledge, with the    *)
(*                                     approvals made by the worker        *)
(*                                     (src/src/index.ts 629-657)          *)
(* storage is the durable storage of one partition (one Durable Object    *)
(* instance), peer that of the instance of another partition key, and      *)
(* routed the name the worker last passed to idFromName; time is in        *)
(* milliseconds as Date.now() returns it.                                  *)
(*                                                                         *)
(* Seven specifications share the definitions:                             *)
(*   Spec       requests handled one after the other, each as one step     *)
(*   TxnSpec    two requests in flight, a step per stretch between the     *)
(*              points where a handler waits on the network or on storage  *)
(*              (procs, gate)                                              *)
(*   TokenSpec  the credential lookups on their own (got)                  *)
(*   RouteSpec  the worker routes over two partitions (peer, routed)       *)
(*   HookSpec   the webhook deliveries and their filters (hook)            *)
(*   RefreshSpec two credential lookups in flight on one instance          *)
(*   PairSpec   /process-escrow and /pledge given the same commands        *)
(***************************************************************************)
EXTENDS Integers, FiniteSets, Sequences, TLC

VARIABLES build, storage, tokens, now, reviews, last, steps, procs, gate, got,
          peer, routed, hook

vars == <<build, storage, tokens, now, reviews, last, steps, procs, gate, got,
          peer, routed, hook>>

(* ------------------------------ bounds -------------------------------- *)
\* steps of a run: requests handled and clock advances
MaxSteps == 3
\* clock advances of a run: at most every other step
MaxTicks == MaxSteps \div 2

(* --------------------------- program constants ------------------------ *)
\* getUserToken refreshes 5 minutes (in ms) before expiry
Margin == 300000

(* ------------------------------ inputs -------------------------------- *)
\* GitHub accounts; an account's login and numeric id are one model value
Users == {1, 2, 3}
\* payload.issue.user?.login when the issue has no user: undefined
NoUser == 0
\* the pull requests commented on: <<number, repository full name>>
Items == {<<1, "r1">>, <<2, "r2">>}
Installations == {1}
\* the repository whose instance `storage` is, in the builds that keep one
\* instance per repository
BoxRepo == "r1"
\* lifetimes (seconds) the identity provider reports in expires_in
ExpiresIn == {240, 600}

\* an access or refresh token: <<owner, serial>>; null/"" is NoToken.
\* The OAuth code exchange hands out serial 1, a refresh hands out serial 2.
NoToken == <<0, 0>>
Granted(u) == <<u, 1>>
Refreshed(u) == <<u, 2>>
\* a later OAuth code exchange of the same user hands out serial 3
Regranted(u) == <<u, 3>>

NoPledge == [prNumber |-> 0, repo |-> "", createdAt |-> 0]
NoKey == <<"none", 0, 0>>

(* --------------------------- storage API ------------------------------ *)
Has(s, k) == k \in DOMAIN s
Put(s, k, v) == [x \in (DOMAIN s) \cup {k} |-> IF x = k THEN v ELSE s[x]]
Delete(s, k) == [x \in (DOMAIN s) \ {k} |-> s[x]]
EmptyStorage == [x \in {} |-> NoPledge]

PledgeKey(a, b) == <<"pledge", a, b>>
\* (mutant) the installation left out of the key
TokenKeyNoInstallation(userId, installationId) == <<"token", userId, 0>>
\* handleStoreToken: `token:${userId}:${installationId}`
TokenKey(userId, installationId) == <<"token", userId, installationId>>
\* the key getUserToken(userId, storage, env, installationId) reads: the
\* credential of the user for the installation
UserTokenKey(userId, installationId) == <<"token", userId, installationId>>

\* (mutant) a store that keeps the credential already there
InsertToken(s, tokenKey, tokenData) ==
    IF Has(s, tokenKey) THEN s ELSE Put(s, tokenKey, tokenData)
\* await this.storage.put(tokenKey, tokenData)
UpsertToken(s, tokenKey, tokenData) == Put(s, tokenKey, tokenData)

(* ------------------------- external collaborators --------------------- *)
\* What refreshUserToken can answer: a throw (either fetch not ok), or a
\* GitHubTokenResponse {token, refresh_token, expires_in} for the owner of
\* the refresh token supplied; refresh_token may come back empty.
RefreshFailed == [ok |-> FALSE, token |-> NoToken, refresh_token |-> NoToken, expires_in |-> 0]
NoRefresh == [ok |-> FALSE, token |-> NoToken, refresh_token |-> NoToken, expires_in |-> 1]
RefreshUserToken(refreshToken) ==
    {RefreshFailed} \cup
    [ok : {TRUE}, token : {Refreshed(refreshToken[1])},
     refresh_token : {Refreshed(refreshToken[1]), NoToken}, expires_in : ExpiresIn]

\* approvePr(repo, pr, token): returns (ok) once the token's owner holds an
\* APPROVED review of the pull request, or throws (~ok) and adds nothing.
ApprovePr(rv, repo, pr, token, ok) ==
    IF ok THEN rv \cup {<<repo, pr, token[1]>>} ELSE rv

(* ------------------------------ token store --------------------------- *)
\* (mutant) the margin left out
NeedsRefreshAtExpiry(tokenData, t) == t > tokenData.expires
NeedsRefresh(tokenData, t) == t > tokenData.expires - Margin

\* the answers the identity provider may give during getUserToken(userId):
\* it is called only for a stored token inside the refresh margin
RefreshChoices(s, userId, installationId, t) ==
    LET k == UserTokenKey(userId, installationId) IN
    IF Has(s, k) /\ NeedsRefresh(s[k], t) THEN RefreshUserToken(s[k].refresh) ELSE {NoRefresh}

\* getUserToken: the access token or null (NoToken), and the storage it leaves
\* (the handlers pass installationId; the token is read under UserTokenKey)
GetUserToken(s, userId, installationId, t, refreshedToken) ==
    LET k == UserTokenKey(userId, installationId) IN
    IF ~Has(s, k) THEN [token |-> NoToken, storage |-> s]
    ELSE IF NeedsRefresh(s[k], t) THEN
        IF refreshedToken.ok THEN
            LET newTokenData ==
                  [access  |-> refreshedToken.token,
                   refresh |-> IF refreshedToken.refresh_token # NoToken
                               THEN refreshedToken.refresh_token ELSE s[k].refresh,
                   expires |-> t + refreshedToken.expires_in * 1000]
            IN [token |-> newTokenData.access, storage |-> Put(s, k, newTokenData)]
        ELSE [token |-> NoToken, storage |-> s]
    ELSE [token |-> s[k].access, storage |-> s]

(* ------------------------------ responses ----------------------------- *)
\* The response of the last request handled, with what the handler did on
\* the way: the pledge key it consumed or found (matched), that pledge's
\* data (partner), the accounts asked to authorize (who), the approval
\* client invocations <<repo, pr, token>> (calls) and those of them that
\* GitHub accepted (approved); listed is the set of pledges
\* <<offeror, target, prNumber, repo, createdAt>> its body enumerates.
Reply(op, user, target, prNumber, repo, type, variant, matched, partner, who, calls, approved) ==
    [op |-> op, user |-> user, target |-> target, prNumber |-> prNumber, repo |-> repo,
     type |-> type, variant |-> variant, matched |-> matched, partner |-> partner,
     who |-> who, calls |-> calls, approved |-> approved, listed |-> {}]

NoReply == Reply("none", NoUser, NoUser, 0, "", "none", "none", NoKey, NoPledge, {}, {}, {})

\* the requests in flight (TxnSpec): where each handler stands, the tokens
\* it holds and its response so far
Slots == {1, 2}
NoSlot == 0
Idle == [pc |-> "idle", inst |-> 0, tokA |-> NoToken, tokB |-> NoToken, r |-> NoReply]
\* the outcome of the last credential lookup (TokenSpec): the token handed
\* out, the HTTP status or 0 for a function call, the refresh calls made,
\* and whether the caller of the lookup got an exception instead of a value
NoAccess ==
    [op |-> "none", user |-> NoUser, token |-> NoToken, status |-> 0, refreshes |-> 0,
     fault |-> FALSE]

\* no instance was looked up yet
NoName == ""
\* no webhook was delivered yet
NoDelivery == [event |-> "", signature |-> <<>>, payload |-> <<>>]

Respond(s, rv, reply) ==
    /\ storage' = s
    /\ reviews' = rv
    /\ last' = reply
    /\ steps' = steps + 1
    /\ UNCHANGED <<build, tokens, now, procs, gate, got, peer, routed, hook>>

\* the same for a worker route that also reaches the instance named 'tokens'
RespondWorker(s, tk, rv, reply) ==
    /\ storage' = s
    /\ tokens' = tk
    /\ reviews' = rv
    /\ last' = reply
    /\ steps' = steps + 1
    /\ UNCHANGED <<build, now, procs, gate, got, peer, routed, hook>>

\* env.ESCROW.idFromName(installationId)
InstallationName(installationId) == ToString(installationId)
\* env.ESCROW.idFromName(repo)
RepoName(repo) == repo
\* env.ESCROW.idFromName('tokens')
TokensName == "tokens"
\* the name of the instance that storage models
HomeName(b) ==
    IF b = "ledger" THEN RepoName(BoxRepo)
    ELSE InstallationName(CHOOSE i \in Installations : TRUE)

\* the answer of a request that the worker sent to the instance `name`,
\* which left the storage s there and tk in the instance 'tokens'
Routed(name, s, tk, rv, reply) ==
    /\ routed' = name
    /\ storage' = IF name = HomeName(build) THEN s ELSE storage
    /\ peer' = IF name \notin {HomeName(build), TokensName} THEN s ELSE peer
    /\ tokens' = tk
    /\ reviews' = rv
    /\ last' = reply
    /\ steps' = steps + 1
    /\ UNCHANGED <<build, now, procs, gate, got, hook>>
\* the storage of the instance `name`
InstanceStorage(name) ==
    IF name = HomeName(build) THEN storage
    ELSE IF name = TokensName THEN tokens
    ELSE peer

\* how the answer of a handler leaves the instance: to the worker that
\* named the instance, or (NoName) to whoever sent the request to storage
Answer(name, s, tk, rv, reply) ==
    IF name = NoName THEN RespondWorker(s, tk, rv, reply)
    ELSE Routed(name, s, tk, rv, reply)

(* ---------------- build "keyed": src/src/escrow.ts --------------------- *)
\* (mutant) the lookup by the commenter's own key
MatchingPledgeKeyForward(userA, prAuthor) == PledgeKey(userA, prAuthor)
\* `pledge:${prAuthor}:${userA}`: the pledge the PR author made to the commenter
MatchingPledgeKey(userA, prAuthor) == PledgeKey(prAuthor, userA)
\* (mutant) the two logins swapped in the key of the new pledge
NewPledgeKeyReversed(userA, prAuthor) == PledgeKey(prAuthor, userA)
\* `pledge:${userA}:${prAuthor}`: the pledge the commenter makes
NewPledgeKey(userA, prAuthor) == PledgeKey(userA, prAuthor)
\* (mutant) the pledge data with the repository left out
PledgeDataNoRepo(prNumber, repoFullName, t) ==
    [prNumber |-> prNumber, repo |-> "", createdAt |-> t]
PledgeData(prNumber, repoFullName, t) ==
    [prNumber |-> prNumber, repo |-> repoFullName, createdAt |-> t]
\* (mutant) the delete left out
KeepPledge(s, matchingPledgeKey) == s
\* the storage after both approvals went through: txn.delete(matchingPledgeKey)
ConsumePledge(s, matchingPledgeKey) == Delete(s, matchingPledgeKey)
\* (mutant) the delete ahead of the approvals
PledgeAfterApprovalsConsumed(s, matchingPledgeKey, ok1, ok2) == Delete(s, matchingPledgeKey)
\* try { await Promise.all([...]) } catch { return error } and only then
\* txn.delete(matchingPledgeKey): the storage the approvals leave
PledgeAfterApprovals(s, matchingPledgeKey, ok1, ok2) ==
    IF ok1 /\ ok2 THEN ConsumePledge(s, matchingPledgeKey) ELSE s
\* (mutant) the first approval to settle decides
AnyApproved(ok1, ok2) == ok1 \/ ok2
\* await Promise.all([approvePr(...), approvePr(...)]) resolves: both calls
\* resolved, else the catch returns "Failed to approve PRs"
AllApproved(ok1, ok2) == ok1 /\ ok2
\* (mutant) && in place of ||
UnauthorizedBoth(userAToken, prAuthorToken) == userAToken = NoToken /\ prAuthorToken = NoToken
\* if (!userAToken || !prAuthorToken)
Unauthorized(userAToken, prAuthorToken) == userAToken = NoToken \/ prAuthorToken = NoToken
\* (mutant) the put ahead of the token check
CreatePledgeAlways(s, pledgeKey, pledgeData, userAToken) == Put(s, pledgeKey, pledgeData)
\* the no-match path: nothing is written for an offeror without a token,
\* else txn.put(pledgeKey, pledgeData)
CreatePledge(s, pledgeKey, pledgeData, userAToken) ==
    IF userAToken = NoToken THEN s ELSE Put(s, pledgeKey, pledgeData)
\* (mutant) a message that always names both
NeedAuthorizeBoth(userA, prAuthor, userAToken, prAuthorToken) == {userA, prAuthor}
\* who the "needs to authorize" message names
NeedAuthorize(userA, prAuthor, userAToken, prAuthorToken) ==
    (IF userAToken = NoToken THEN {userA} ELSE {}) \cup
    (IF prAuthorToken = NoToken THEN {prAuthor} ELSE {})
\* the two approvePr calls of Promise.all: <<repo, pr, token>>
ApprovalCalls(repoFullName, prNumber, matchingPledge, userAToken, prAuthorToken) ==
    << <<repoFullName, prNumber, userAToken>>,
       <<matchingPledge.repo, matchingPledge.prNumber, prAuthorToken>> >>

\* handleStoreToken on the instance `name`, whose storage is s
HandleStoreToken(name, s, userId, access, refresh, expires_in, installationId) ==
    LET tokenData == [access |-> access, refresh |-> refresh,
                      expires |-> now + expires_in * 1000]
    IN Answer(name, UpsertToken(s, TokenKey(userId, installationId), tokenData), tokens,
              reviews,
              Reply("store-token", userId, NoUser, 0, "", "ok", "TokenStored",
                    NoKey, NoPledge, {}, {}, {}))

\* POST /store-token {userId, tokenData, installationId}
StoreToken(userId, access, refresh, expires_in, installationId) ==
    /\ build = "keyed"
    /\ steps < MaxSteps
    /\ HandleStoreToken(NoName, storage, userId, access, refresh, expires_in, installationId)

\* handleProcessEscrow on the instance `name`, whose storage is s, with the body
\* {userA, userAId, prNumber, repoFullName, prAuthor, prAuthorId, workerUrl,
\* installationId}; the ids are those of the logins
HandleProcessEscrow(name, s, userA, prNumber, repoFullName, prAuthor, installationId) ==
    LET userAId == userA
        prAuthorId == prAuthor
        R(type, variant, matched, partner, who, calls, approved) ==
            Reply("process-escrow", userA, prAuthor, prNumber, repoFullName,
                  type, variant, matched, partner, who, calls, approved)
        matchingPledgeKey == MatchingPledgeKey(userA, prAuthor)
    IN
       IF userA = prAuthor THEN
          Answer(name, s, tokens, reviews,
                  R("error", "SelfApprovalRejected", NoKey, NoPledge, {}, {}, {}))
       ELSE IF prAuthor = NoUser \/ prAuthorId = NoUser THEN
          Answer(name, s, tokens, reviews, R("error", "AuthorUnknown", NoKey, NoPledge, {}, {}, {}))
       ELSE IF Has(s, matchingPledgeKey) THEN
          LET matchingPledge == s[matchingPledgeKey] IN
          \E rA \in RefreshChoices(s, userAId, installationId, now) :
            LET a == GetUserToken(s, userAId, installationId, now, rA) IN
            \E rB \in RefreshChoices(a.storage, prAuthorId, installationId, now) :
              LET b == GetUserToken(a.storage, prAuthorId, installationId, now, rB) IN
              IF Unauthorized(a.token, b.token) THEN
                 Answer(name, b.storage, tokens, reviews,
                         R("error", "AwaitingAuthorization", matchingPledgeKey,
                           matchingPledge,
                           NeedAuthorize(userA, prAuthor, a.token, b.token), {}, {}))
              ELSE
                 LET c == ApprovalCalls(repoFullName, prNumber, matchingPledge,
                                        a.token, b.token)
                 IN \E ok1, ok2 \in BOOLEAN :
                      LET rv == ApprovePr(ApprovePr(reviews, c[1][1], c[1][2], c[1][3], ok1),
                                          c[2][1], c[2][2], c[2][3], ok2)
                          done == (IF ok1 THEN {c[1]} ELSE {}) \cup (IF ok2 THEN {c[2]} ELSE {})
                          s1 == PledgeAfterApprovals(b.storage, matchingPledgeKey, ok1, ok2)
                      IN IF AllApproved(ok1, ok2) THEN
                            Answer(name, s1, tokens, rv,
                                    R("success", "MutualApprovalCompleted",
                                      matchingPledgeKey, matchingPledge, {}, {c[1], c[2]}, done))
                         ELSE
                            Answer(name, s1, tokens, rv,
                                    R("error", "ApprovalFailed", matchingPledgeKey,
                                      matchingPledge, {}, {c[1], c[2]}, done))
       ELSE
          \E rA \in RefreshChoices(s, userAId, installationId, now) :
            LET a == GetUserToken(s, userAId, installationId, now, rA) IN
            LET s1 == CreatePledge(a.storage, NewPledgeKey(userA, prAuthor),
                                   PledgeData(prNumber, repoFullName, now), a.token)
            IN IF a.token = NoToken THEN
                  Answer(name, s1, tokens, reviews,
                          R("error", "AwaitingAuthorization", NoKey, NoPledge, {userA}, {}, {}))
               ELSE
                  Answer(name, s1, tokens, reviews,
                          R("pledge", "PledgeCreated", NoKey, NoPledge, {}, {}, {}))

\* POST /process-escrow on the instance of storage
ProcessEscrow(userA, prNumber, repoFullName, prAuthor, installationId) ==
    /\ build = "keyed"
    /\ steps < MaxSteps
    /\ HandleProcessEscrow(NoName, storage, userA, prNumber, repoFullName, prAuthor,
                           installationId)

\* GET /debug/pledges/<repoId>: the worker forwards GET /debug-pledges to
\* the instance and returns its answer; fetch knows /store-token and
\* /process-escrow only and answers anything else 404 "Not Found"
DebugPledges ==
    /\ build \in {"keyed", "scan"}
    /\ steps < MaxSteps
    /\ Respond(storage, reviews,
               Reply("debug-pledges", NoUser, NoUser, 0, "", "error", "NotFound",
                     NoKey, NoPledge, {}, {}, {}))

(* ---------------- build "scan": src/unnamed/part_005 ------------------- *)
(* One instance per repository: every request carries the repository of    *)
(* the instance (BoxRepo, one of RepoIds).                                  *)
RepoIds == {1}
InstallationKey(repoId) == <<"installation", repoId, 0>>
\* `pledge:${userA}:${Date.now()}`
ScanPledgeKey(userA, t) == <<"pledge", userA, t>>
\* txn.list({prefix: `pledge:${prAuthor}:`}): the keys come back in key
\* order, which for timestamps of equal length is the order of the times
ListPledgeKeys(s, prAuthor) == {k \in DOMAIN s : k[1] = "pledge" /\ k[2] = prAuthor}
\* the loop that breaks at the first entry
FirstPledgeKey(s, prAuthor) ==
    LET keys == ListPledgeKeys(s, prAuthor) IN
    IF keys = {} THEN NoKey ELSE CHOOSE k \in keys : \A j \in keys : k[3] <= j[3]
\* the two approvePr calls of Promise.all in this build
ScanApprovalCalls(repoFullName, prNumber, matchingPledge, userAToken, prAuthorToken) ==
    << <<repoFullName, prNumber, prAuthorToken>>,
       <<matchingPledge.repo, matchingPledge.prNumber, userAToken>> >>

\* POST /store-token {userId, tokenData, repoId}
ScanStoreToken(userId, access, refresh, expires_in, repoId) ==
    /\ build = "scan"
    /\ steps < MaxSteps
    /\ IF ~Has(storage, InstallationKey(repoId)) THEN
          Respond(storage, reviews,
                  Reply("store-token", userId, NoUser, 0, "", "error",
                        "InstallationNotFound", NoKey, NoPledge, {}, {}, {}))
       ELSE
          LET installationId == storage[InstallationKey(repoId)]
              tokenData == [access |-> access, refresh |-> refresh,
                            expires |-> now + expires_in * 1000]
          IN Respond(UpsertToken(storage, TokenKey(userId, installationId), tokenData),
                     reviews,
                     Reply("store-token", userId, NoUser, 0, "", "ok", "TokenStored",
                           NoKey, NoPledge, {}, {}, {}))

\* POST /process-escrow {userA, userAId, prNumber, repoFullName, repoId,
\* prAuthor, prAuthorId, workerUrl, installationId}
ScanProcessEscrow(userA, prNumber, repoFullName, repoId, prAuthor, installationId) ==
    LET userAId == userA
        prAuthorId == prAuthor
        R(type, variant, matched, partner, who, calls, approved) ==
            Reply("process-escrow", userA, prAuthor, prNumber, repoFullName,
                  type, variant, matched, partner, who, calls, approved)
        s0 == Put(storage, InstallationKey(repoId), installationId)
        matchingPledgeKey == FirstPledgeKey(s0, prAuthor)
    IN
    /\ build = "scan"
    /\ steps < MaxSteps
    /\ IF userA = prAuthor THEN
          Respond(s0, reviews, R("error", "SelfApprovalRejected", NoKey, NoPledge, {}, {}, {}))
       ELSE IF prAuthor = NoUser \/ prAuthorId = NoUser THEN
          Respond(s0, reviews, R("error", "AuthorUnknown", NoKey, NoPledge, {}, {}, {}))
       ELSE IF matchingPledgeKey # NoKey THEN
          LET matchingPledge == s0[matchingPledgeKey] IN
          \E rA \in RefreshChoices(s0, userAId, installationId, now) :
            LET a == GetUserToken(s0, userAId, installationId, now, rA) IN
            \E rB \in RefreshChoices(a.storage, prAuthorId, installationId, now) :
              LET b == GetUserToken(a.storage, prAuthorId, installationId, now, rB) IN
              IF Unauthorized(a.token, b.token) THEN
                 Respond(b.storage, reviews,
                         R("error", "AwaitingAuthorization", matchingPledgeKey,
                           matchingPledge,
                           NeedAuthorize(userA, prAuthor, a.token, b.token), {}, {}))
              ELSE
                 LET c == ScanApprovalCalls(repoFullName, prNumber, matchingPledge,
                                            a.token, b.token)
                 IN \E ok1, ok2 \in BOOLEAN :
                      LET rv == ApprovePr(ApprovePr(reviews, c[1][1], c[1][2], c[1][3], ok1),
                                          c[2][1], c[2][2], c[2][3], ok2)
                          done == (IF ok1 THEN {c[1]} ELSE {}) \cup (IF ok2 THEN {c[2]} ELSE {})
                          s1 == PledgeAfterApprovals(b.storage, matchingPledgeKey, ok1, ok2)
                      IN IF AllApproved(ok1, ok2) THEN
                            Respond(s1, rv,
                                    R("success", "MutualApprovalCompleted",
                                      matchingPledgeKey, matchingPledge, {}, {c[1], c[2]}, done))
                         ELSE
                            Respond(s1, rv,
                                    R("error", "ApprovalFailed", matchingPledgeKey,
                                      matchingPledge, {}, {c[1], c[2]}, done))
       ELSE
          \E rA \in RefreshChoices(s0, userAId, installationId, now) :
            LET a == GetUserToken(s0, userAId, installationId, now, rA) IN
            LET s1 == CreatePledge(a.storage, ScanPledgeKey(userA, now),
                                   PledgeData(prNumber, repoFullName, now), a.token)
            IN IF a.token = NoToken THEN
                  Respond(s1, reviews,
                          R("error", "AwaitingAuthorization", NoKey, NoPledge, {userA}, {}, {}))
               ELSE
                  Respond(s1, reviews,
                          R("pledge", "PledgeCreated", NoKey, NoPledge, {}, {}, {}))

(* ---------------- build "ledger": src/unnamed/part_004 ----------------- *)
(* The worker of this build (src/src/index.ts 611-682, src/src/helpers.ts)  *)
(* keeps the pledges in the instance named after the repository (storage)  *)
(* and every token in the instance named 'tokens' (tokens).                *)
LedgerPledgeKey(a, b) == <<"pledges", a, b>>
LedgerTokenKey(user) == <<"token", user>>
\* Date.now() + undefined * 1000
NaN == 0 - 1

\* (mutant) the match returned without txn.delete
PledgeTxnKeep(s, user, target, prNumber, repo, t) ==
    LET k == LedgerPledgeKey(target, user) IN
    IF Has(s, k) THEN [match |-> s[k], key |-> k, storage |-> s]
    ELSE [match |-> NoPledge, key |-> NoKey,
          storage |-> Put(s, LedgerPledgeKey(user, target), PledgeData(prNumber, repo, t))]
\* (mutant) the lookup under the commenter's own key
PledgeTxnForward(s, user, target, prNumber, repo, t) ==
    LET k == LedgerPledgeKey(user, target) IN
    IF Has(s, k) THEN [match |-> s[k], key |-> k, storage |-> Delete(s, k)]
    ELSE [match |-> NoPledge, key |-> NoKey,
          storage |-> Put(s, LedgerPledgeKey(user, target), PledgeData(prNumber, repo, t))]
\* POST /pledge {user, target, prNumber, repo}: the storage transaction
PledgeTxn(s, user, target, prNumber, repo, t) ==
    LET k == LedgerPledgeKey(target, user) IN
    IF Has(s, k) THEN [match |-> s[k], key |-> k, storage |-> Delete(s, k)]
    ELSE [match |-> NoPledge, key |-> NoKey,
          storage |-> Put(s, LedgerPledgeKey(user, target), PledgeData(prNumber, repo, t))]

\* PUT /token/<login> from GET /oauth/callback
TokenPut(user, access, refresh, expires_in) ==
    /\ build = "ledger"
    /\ steps < MaxSteps
    /\ RespondWorker(storage,
                     UpsertToken(tokens, LedgerTokenKey(user),
                                 [access |-> access, refresh |-> refresh,
                                  expires |-> now + expires_in * 1000]),
                     reviews,
                     Reply("token-put", user, NoUser, 0, "", "ok", "TokenStored",
                           NoKey, NoPledge, {}, {}, {}))

\* What the user-access-token fetch of GET /token/<login> can do: fail on
\* the network (the handler throws), answer an error body (no token field),
\* or answer {token, refresh_token, expires_in}.
LedgerRefreshThrew == [threw |-> TRUE, token |-> NoToken, refresh_token |-> NoToken, expires |-> 0]
LedgerRefreshChoices(tk, user, t) ==
    LET k == LedgerTokenKey(user) IN
    IF Has(tk, k) /\ tk[k].expires # NaN /\ t > tk[k].expires - Margin THEN
        {LedgerRefreshThrew,
         [threw |-> FALSE, token |-> NoToken, refresh_token |-> NoToken, expires |-> NaN]}
        \cup [threw : {FALSE}, token : {Refreshed(user)},
              refresh_token : {Refreshed(user), NoToken},
              expires : {t + e * 1000 : e \in ExpiresIn}]
    ELSE {[threw |-> FALSE, token |-> NoToken, refresh_token |-> NoToken, expires |-> 0]}

\* GET /token/<login>: status 404 (missing), 500 (thrown) or 200 {access}
LedgerGetToken(tk, user, t, upd) ==
    LET k == LedgerTokenKey(user) IN
    IF ~Has(tk, k) THEN [status |-> 404, access |-> NoToken, storage |-> tk]
    ELSE IF tk[k].expires # NaN /\ t > tk[k].expires - Margin THEN
        IF upd.threw THEN [status |-> 500, access |-> NoToken, storage |-> tk]
        ELSE LET rec == [access |-> upd.token, refresh |-> upd.refresh_token,
                         expires |-> upd.expires]
             IN [status |-> 200, access |-> rec.access, storage |-> Put(tk, k, rec)]
    ELSE [status |-> 200, access |-> tk[k].access, storage |-> tk]

\* helpers.approvePr: the POST is accepted, refused (the response is never
\* looked at) or fails on the network (throws)
LedgerApproveChoices(token) ==
    IF token = NoToken THEN {"refused", "threw"} ELSE {"approved", "refused", "threw"}
LedgerApprovePr(rv, repo, pr, token, outcome) ==
    IF outcome = "approved" THEN rv \cup {<<repo, pr, token[1]>>} ELSE rv

\* POST /webhook with a verified /escrow-approve comment on a pull request
\* of repo: /pledge on the instance `name`, whose storage is s,
\* then on a match both tokens from the instance 'tokens', whose storage is
\* tk, and both approvals. payload.issue.user.login throws when the issue
\* has no user.
HandleWebhook(name, s, tk, user, target, prNumber, repo) ==
    LET p == PledgeTxn(s, user, target, prNumber, repo, now)
        R(type, variant, calls, approved) ==
            Reply("webhook", user, target, prNumber, repo, type, variant,
                  p.key, p.match, {}, calls, approved)
    IN
       IF target = NoUser THEN
          Answer(name, s, tk, reviews,
                        Reply("webhook", user, target, prNumber, repo, "fault", "TypeError",
                              NoKey, NoPledge, {}, {}, {}))
       ELSE IF p.key = NoKey THEN
          Answer(name, p.storage, tk, reviews, R("ok", "Created", {}, {}))
       ELSE
          \E uA \in LedgerRefreshChoices(tk, user, now) :
            LET a == LedgerGetToken(tk, user, now, uA) IN
            IF a.status # 200 THEN
               Answer(name, p.storage, a.storage, reviews, R("fault", "TokenMissing", {}, {}))
            ELSE
            \E uB \in LedgerRefreshChoices(a.storage, target, now) :
              LET b == LedgerGetToken(a.storage, target, now, uB) IN
              IF b.status # 200 THEN
                 Answer(name, p.storage, b.storage, reviews,
                               R("fault", "TokenMissing", {}, {}))
              ELSE
              LET c1 == <<repo, prNumber, a.access>>
                  c2 == <<p.match.repo, p.match.prNumber, b.access>>
              IN
              \E o1 \in LedgerApproveChoices(a.access) :
                LET rv1 == LedgerApprovePr(reviews, c1[1], c1[2], c1[3], o1)
                    d1 == IF o1 = "approved" THEN {c1} ELSE {}
                IN
                IF o1 = "threw" THEN
                   Answer(name, p.storage, b.storage, rv1, R("fault", "ApproveThrew", {c1}, d1))
                ELSE
                \E o2 \in LedgerApproveChoices(b.access) :
                  LET rv2 == LedgerApprovePr(rv1, c2[1], c2[2], c2[3], o2)
                      d2 == d1 \cup (IF o2 = "approved" THEN {c2} ELSE {})
                  IN
                  IF o2 = "threw" THEN
                     Answer(name, p.storage, b.storage, rv2,
                                   R("fault", "ApproveThrew", {c1, c2}, d2))
                  ELSE
                     Answer(name, p.storage, b.storage, rv2,
                                   R("ok", "Matched", {c1, c2}, d2))

\* POST /webhook for a pull request of BoxRepo
Webhook(user, target, prNumber) ==
    /\ build = "ledger"
    /\ steps < MaxSteps
    /\ HandleWebhook(NoName, storage, tokens, user, target, prNumber, BoxRepo)

(* ------------------------------- clock -------------------------------- *)
\* Date.now() moves on between requests
Tick ==
    /\ now < MaxTicks * Margin
    /\ steps < MaxSteps
    /\ now' = now + Margin
    /\ steps' = steps + 1
    /\ UNCHANGED <<build, storage, tokens, reviews, last, procs, gate, got, peer, routed, hook>>

(* --------------------------- specification ---------------------------- *)
Builds == {"keyed", "scan", "ledger"}

\* The constructor only binds the durable storage, so an instance starts
\* over whatever earlier requests left there: nothing, or (Authorized) the
\* tokens of two users who went through /oauth/callback at time 0, which
\* in the scan build needs the installation recorded by an earlier command.
PreAuthorized == {1, 2}
GrantedAtStart(u) == [access |-> Granted(u), refresh |-> Granted(u), expires |-> 600 * 1000]
AuthorizedStorage(b) ==
    IF b = "ledger" THEN EmptyStorage
    ELSE LET inst == CHOOSE i \in Installations : TRUE
             keys == {TokenKey(u, inst) : u \in PreAuthorized}
                     \cup (IF b = "scan" THEN {InstallationKey(r) : r \in RepoIds} ELSE {})
         IN [k \in keys |-> IF k[1] = "token" THEN GrantedAtStart(k[2]) ELSE inst]
AuthorizedTokens(b) ==
    IF b = "ledger"
    THEN [k \in {LedgerTokenKey(u) : u \in PreAuthorized} |-> GrantedAtStart(k[2])]
    ELSE EmptyStorage

Init ==
    /\ build \in Builds
    /\ \/ storage = EmptyStorage /\ tokens = EmptyStorage
       \/ storage = AuthorizedStorage(build) /\ tokens = AuthorizedTokens(build)
    /\ now = 0
    /\ reviews = {}
    /\ last = NoReply
    /\ steps = 0
    /\ procs = [p \in Slots |-> Idle]
    /\ gate = NoSlot
    /\ got = NoAccess
    /\ peer = EmptyStorage
    /\ routed = NoName
    /\ hook = NoDelivery

Next ==
    \/ \E u \in Users, e \in ExpiresIn, i \in Installations :
          StoreToken(u, Granted(u), Granted(u), e, i)
    \/ \E userA \in Users, it \in Items, prAuthor \in Users \cup {NoUser},
          i \in Installations :
          ProcessEscrow(userA, it[1], it[2], prAuthor, i)
    \/ \E u \in Users, e \in ExpiresIn, r \in RepoIds :
          ScanStoreToken(u, Granted(u), Granted(u), e, r)
    \/ \E userA \in Users, prNumber \in {it[1] : it \in Items}, r \in RepoIds,
          prAuthor \in Users \cup {NoUser}, i \in Installations :
          ScanProcessEscrow(userA, prNumber, BoxRepo, r, prAuthor, i)
    \/ \E user \in Users, e \in ExpiresIn :
          TokenPut(user, Granted(user), Granted(user), e)
    \/ \E user \in Users, target \in Users \cup {NoUser}, prNumber \in {it[1] : it \in Items} :
          Webhook(user, target, prNumber)
    \/ DebugPledges
    \/ Tick

Spec == Init /\ [][Next]_vars

(* ------------------- requests in flight (TxnSpec) --------------------- *)
(* A handler runs until it waits; another request may then be delivered    *)
(* unless a storage.transaction() closure is still running: the instance   *)
(* admits no other request until the closure has settled. gate is the      *)
(* slot whose closure is running, NoSlot when none is.                     *)
\* (mutant) a handler body that is not wrapped in storage.transaction
GateIgnored(g) == TRUE
\* await this.storage.transaction(...): entered when no closure is running
GateOpen(g) == g = NoSlot
\* (mutant) a closure that ends with the lookup
TxnReleased(p) == NoSlot
\* who is inside the closure once the lookup is done: it goes on to the
\* tokens, the approvals and the write
TxnHolder(p) == p

TxnStep(s, tk, rv, g, p, rec) ==
    /\ storage' = s
    /\ tokens' = tk
    /\ reviews' = rv
    /\ gate' = g
    /\ procs' = [procs EXCEPT ![p] = rec]
    /\ UNCHANGED <<build, now, last, steps, got, peer, routed, hook>>

Proc(pc, inst, tokA, tokB, r) == [pc |-> pc, inst |-> inst, tokA |-> tokA, tokB |-> tokB, r |-> r]
Finished(pr, type, variant) ==
    [pr EXCEPT !.pc = "done", !.r = [pr.r EXCEPT !.type = type, !.variant = variant]]

\* /process-escrow, from the request to the lookup: escrow.ts 62-109
Deliver(p, userA, prNumber, repoFullName, prAuthor, installationId) ==
    LET R(type, variant, matched, partner) ==
            Reply("process-escrow", userA, prAuthor, prNumber, repoFullName,
                  type, variant, matched, partner, {}, {}, {})
        matchingPledgeKey == MatchingPledgeKey(userA, prAuthor)
    IN
    /\ build = "keyed"
    /\ procs[p].pc = "idle"
    /\ GateOpen(gate)
    /\ IF userA = prAuthor THEN
          TxnStep(storage, tokens, reviews, gate, p,
                  Proc("done", installationId, NoToken, NoToken,
                       R("error", "SelfApprovalRejected", NoKey, NoPledge)))
       ELSE IF prAuthor = NoUser THEN
          TxnStep(storage, tokens, reviews, gate, p,
                  Proc("done", installationId, NoToken, NoToken,
                       R("error", "AuthorUnknown", NoKey, NoPledge)))
       ELSE IF Has(storage, matchingPledgeKey) THEN
          TxnStep(storage, tokens, reviews, TxnHolder(p), p,
                  Proc("tokens", installationId, NoToken, NoToken,
                       R("pending", "pending", matchingPledgeKey, storage[matchingPledgeKey])))
       ELSE
          TxnStep(storage, tokens, reviews, TxnHolder(p), p,
                  Proc("tokens", installationId, NoToken, NoToken,
                       R("pending", "pending", NoKey, NoPledge)))

\* the getUserToken calls and what follows them up to the next wait:
\* escrow.ts 115-149 on a match, 188-200 without
ResolveTokens(p) ==
    LET pr == procs[p]
        r == pr.r
    IN
    /\ build = "keyed"
    /\ pr.pc = "tokens"
    /\ \E rA \in RefreshChoices(storage, r.user, pr.inst, now) :
         LET a == GetUserToken(storage, r.user, pr.inst, now, rA) IN
         IF r.matched # NoKey THEN
            \E rB \in RefreshChoices(a.storage, r.target, pr.inst, now) :
              LET b == GetUserToken(a.storage, r.target, pr.inst, now, rB) IN
              IF Unauthorized(a.token, b.token) THEN
                 TxnStep(b.storage, tokens, reviews, NoSlot, p,
                         [pr EXCEPT !.pc = "done",
                                    !.r = [r EXCEPT !.type = "error",
                                                    !.variant = "AwaitingAuthorization",
                                                    !.who = NeedAuthorize(r.user, r.target,
                                                                          a.token, b.token)]])
              ELSE
                 LET c == ApprovalCalls(r.repo, r.prNumber, r.partner, a.token, b.token) IN
                 TxnStep(b.storage, tokens, reviews, gate, p,
                         [pr EXCEPT !.pc = "approving", !.tokA = a.token, !.tokB = b.token,
                                    !.r = [r EXCEPT !.calls = {c[1], c[2]}]])
         ELSE IF a.token = NoToken THEN
            TxnStep(a.storage, tokens, reviews, NoSlot, p,
                    [pr EXCEPT !.pc = "done",
                               !.r = [r EXCEPT !.type = "error",
                                               !.variant = "AwaitingAuthorization",
                                               !.who = {r.user}]])
         ELSE
            TxnStep(a.storage, tokens, reviews, gate, p,
                    [pr EXCEPT !.pc = "writing", !.tokA = a.token])

\* Promise.all of the two approvePr calls settles: escrow.ts 151-172
Approve(p) ==
    LET pr == procs[p]
        r == pr.r
        c == ApprovalCalls(r.repo, r.prNumber, r.partner, pr.tokA, pr.tokB)
    IN
    /\ build = "keyed"
    /\ pr.pc = "approving"
    /\ \E ok1, ok2 \in BOOLEAN :
         LET rv == ApprovePr(ApprovePr(reviews, c[1][1], c[1][2], c[1][3], ok1),
                             c[2][1], c[2][2], c[2][3], ok2)
             done == (IF ok1 THEN {c[1]} ELSE {}) \cup (IF ok2 THEN {c[2]} ELSE {})
         IN IF AllApproved(ok1, ok2) THEN
               TxnStep(storage, tokens, rv, gate, p,
                       [pr EXCEPT !.pc = "writing", !.r = [r EXCEPT !.approved = done]])
            ELSE
               TxnStep(storage, tokens, rv, NoSlot, p,
                       [pr EXCEPT !.pc = "done",
                                  !.r = [r EXCEPT !.type = "error", !.variant = "ApprovalFailed",
                                                  !.approved = done]])

\* txn.delete or txn.put, the closure returns and the transaction commits:
\* escrow.ts 174-180 and 202-221
Commit(p) ==
    LET pr == procs[p]
        r == pr.r
    IN
    /\ build = "keyed"
    /\ pr.pc = "writing"
    /\ IF r.matched # NoKey THEN
          TxnStep(PledgeAfterApprovals(storage, r.matched, TRUE, TRUE), tokens, reviews,
                  NoSlot, p, Finished(pr, "success", "MutualApprovalCompleted"))
       ELSE
          TxnStep(CreatePledge(storage, NewPledgeKey(r.user, r.target),
                               PledgeData(r.prNumber, r.repo, now), pr.tokA),
                  tokens, reviews, NoSlot, p, Finished(pr, "pledge", "PledgeCreated"))

\* a storage operation inside the closure throws: the transaction is
\* rolled back and the catch answers 500 "Internal error": escrow.ts 227-230
Abort(p) ==
    /\ build = "keyed"
    /\ procs[p].pc \in {"tokens", "writing"}
    /\ TxnStep(storage, tokens, reviews, NoSlot, p,
               Finished(procs[p], "fault", "InternalError"))

\* POST /webhook up to the answer of /pledge: index.ts 629-649. The
\* transaction of /pledge (part_004 57-68) either commits or (fails) throws.
PledgeRequest(p, user, target, prNumber, fails) ==
    LET repo == BoxRepo
        t == PledgeTxn(storage, user, target, prNumber, repo, now)
        R(type, variant, matched, partner) ==
            Reply("webhook", user, target, prNumber, repo, type, variant,
                  matched, partner, {}, {}, {})
    IN
    /\ build = "ledger"
    /\ procs[p].pc = "idle"
    /\ GateOpen(gate)
    /\ IF target = NoUser THEN
          TxnStep(storage, tokens, reviews, gate, p,
                  Proc("done", NoSlot, NoToken, NoToken,
                       R("fault", "TypeError", NoKey, NoPledge)))
       ELSE IF fails THEN
          TxnStep(storage, tokens, reviews, gate, p,
                  Proc("done", NoSlot, NoToken, NoToken,
                       R("fault", "InternalError", NoKey, NoPledge)))
       ELSE IF t.key = NoKey THEN
          TxnStep(t.storage, tokens, reviews, gate, p,
                  Proc("done", NoSlot, NoToken, NoToken, R("ok", "Created", NoKey, NoPledge)))
       ELSE
          TxnStep(t.storage, tokens, reviews, gate, p,
                  Proc("tokens", NoSlot, NoToken, NoToken,
                       R("pending", "pending", t.key, t.match)))

\* the two getUserToken calls of the worker: index.ts 651-652
WorkerTokens(p) ==
    LET pr == procs[p]
        r == pr.r
    IN
    /\ build = "ledger"
    /\ pr.pc = "tokens"
    /\ \E uA \in LedgerRefreshChoices(tokens, r.user, now) :
         LET a == LedgerGetToken(tokens, r.user, now, uA) IN
         IF a.status # 200 THEN
            TxnStep(storage, a.storage, reviews, gate, p, Finished(pr, "fault", "TokenMissing"))
         ELSE
         \E uB \in LedgerRefreshChoices(a.storage, r.target, now) :
           LET b == LedgerGetToken(a.storage, r.target, now, uB) IN
           IF b.status # 200 THEN
              TxnStep(storage, b.storage, reviews, gate, p,
                      Finished(pr, "fault", "TokenMissing"))
           ELSE
              TxnStep(storage, b.storage, reviews, gate, p,
                      [pr EXCEPT !.pc = "approving", !.tokA = a.access, !.tokB = b.access,
                                 !.r = [r EXCEPT !.calls =
                                          {<<r.repo, r.prNumber, a.access>>,
                                           <<r.partner.repo, r.partner.prNumber, b.access>>}]])

\* the two approvePr calls of the worker, one after the other: index.ts 653-656
WorkerApprove(p) ==
    LET pr == procs[p]
        r == pr.r
        c1 == <<r.repo, r.prNumber, pr.tokA>>
        c2 == <<r.partner.repo, r.partner.prNumber, pr.tokB>>
    IN
    /\ build = "ledger"
    /\ pr.pc = "approving"
    /\ \E o1 \in LedgerApproveChoices(pr.tokA) :
         LET rv1 == LedgerApprovePr(reviews, c1[1], c1[2], c1[3], o1)
             d1 == IF o1 = "approved" THEN {c1} ELSE {}
         IN
         IF o1 = "threw" THEN
            TxnStep(storage, tokens, rv1, gate, p,
                    [pr EXCEPT !.pc = "done",
                               !.r = [r EXCEPT !.type = "fault", !.variant = "ApproveThrew",
                                               !.calls = {c1}, !.approved = d1]])
         ELSE
         \E o2 \in LedgerApproveChoices(pr.tokB) :
           LET rv2 == LedgerApprovePr(rv1, c2[1], c2[2], c2[3], o2)
               d2 == d1 \cup (IF o2 = "approved" THEN {c2} ELSE {})
           IN TxnStep(storage, tokens, rv2, gate, p,
                      [pr EXCEPT !.pc = "done",
                                 !.r = [r EXCEPT !.type = IF o2 = "threw" THEN "fault" ELSE "ok",
                                                 !.variant = IF o2 = "threw" THEN "ApproveThrew"
                                                             ELSE "Matched",
                                                 !.approved = d2]])

\* The instance as earlier requests left it: two users authorized, user 1
\* possibly with a token of 240 s that is due for a refresh, and possibly
\* the pledge of user 2 to user 1 on pull request 1.
ShortLived(u) == [access |-> Granted(u), refresh |-> Granted(u), expires |-> 240 * 1000]
WithShortLived(b, s) ==
    LET inst == CHOOSE i \in Installations : TRUE IN
    IF b = "ledger" THEN Put(s, LedgerTokenKey(1), ShortLived(1))
    ELSE Put(s, TokenKey(1, inst), ShortLived(1))
WithPledge(b, s) ==
    IF b = "ledger" THEN Put(s, LedgerPledgeKey(2, 1), PledgeData(1, BoxRepo, 0))
    ELSE Put(s, PledgeKey(2, 1), PledgeData(1, "r1", 0))

TxnBuilds == {"keyed", "ledger"}

TxnInit ==
    /\ build \in TxnBuilds
    /\ storage \in {AuthorizedStorage(build), WithPledge(build, AuthorizedStorage(build))}
                   \cup (IF build = "ledger" THEN {}
                         ELSE {WithShortLived(build, AuthorizedStorage(build)),
                               WithShortLived(build, WithPledge(build, AuthorizedStorage(build)))})
    /\ tokens \in {AuthorizedTokens(build)}
                  \cup (IF build = "ledger"
                        THEN {WithShortLived(build, AuthorizedTokens(build))} ELSE {})
    /\ now = 0
    /\ reviews = {}
    /\ last = NoReply
    /\ steps = 0
    /\ procs = [p \in Slots |-> Idle]
    /\ gate = NoSlot
    /\ got = NoAccess
    /\ peer = EmptyStorage
    /\ routed = NoName
    /\ hook = NoDelivery

TxnNext ==
    \/ \E p \in Slots, userA \in Users, it \in Items, prAuthor \in Users \cup {NoUser},
          i \in Installations :
          Deliver(p, userA, it[1], it[2], prAuthor, i)
    \/ \E p \in Slots : ResolveTokens(p)
    \/ \E p \in Slots : Approve(p)
    \/ \E p \in Slots : Commit(p)
    \/ \E p \in Slots : Abort(p)
    \/ \E p \in Slots, user \in Users, target \in Users \cup {NoUser},
          prNumber \in {it[1] : it \in Items}, fails \in BOOLEAN :
          PledgeRequest(p, user, target, prNumber, fails)
    \/ \E p \in Slots : WorkerTokens(p)
    \/ \E p \in Slots : WorkerApprove(p)

TxnSpec == TxnInit /\ [][TxnNext]_vars

(* ------------------- credential lookups (TokenSpec) ------------------- *)
\* the refreshUserToken calls one getUserToken makes
RefreshCalls(s, userId, installationId, t) ==
    LET k == UserTokenKey(userId, installationId) IN
    IF Has(s, k) /\ NeedsRefresh(s[k], t) THEN 1 ELSE 0
\* the user-access-token fetches one GET /token/<login> makes
LedgerRefreshCalls(tk, user, t) ==
    LET k == LedgerTokenKey(user) IN
    IF Has(tk, k) /\ tk[k].expires # NaN /\ t > tk[k].expires - Margin THEN 1 ELSE 0

\* getUserToken(userId, storage, env, installationId) on its own
LookupToken(userId, installationId) ==
    /\ build = "keyed"
    /\ \E rA \in RefreshChoices(storage, userId, installationId, now) :
         LET a == GetUserToken(storage, userId, installationId, now, rA) IN
         /\ storage' = a.storage
         /\ got' = [op |-> "getUserToken", user |-> userId, token |-> a.token, status |-> 0,
                    refreshes |-> RefreshCalls(storage, userId, installationId, now),
                    fault |-> FALSE]
    /\ UNCHANGED <<build, tokens, now, reviews, last, steps, procs, gate, peer, routed, hook>>

\* helpers.getUserToken: if (!res.ok) throw new Error('token missing')
TokenMissing(status) == status # 200

\* helpers.getUserToken(env, user): GET /token/<login> on the instance 'tokens'
TokenGet(user) ==
    /\ build = "ledger"
    /\ \E upd \in LedgerRefreshChoices(tokens, user, now) :
         LET a == LedgerGetToken(tokens, user, now, upd) IN
         /\ tokens' = a.storage
         /\ got' = [op |-> "GET /token", user |-> user, token |-> a.access,
                    status |-> a.status,
                    refreshes |-> LedgerRefreshCalls(tokens, user, now),
                    fault |-> TokenMissing(a.status)]
    /\ UNCHANGED <<build, storage, now, reviews, last, steps, procs, gate, peer, routed, hook>>

\* The credentials earlier authorizations left: any of the users may hold
\* a token granted at time 0 for 4, 5 or 10 minutes.
Lifetimes == {240, 300, 600}
GrantedFor(u, e) == [access |-> Granted(u), refresh |-> Granted(u), expires |-> e * 1000]
Credentials(keys) ==
    UNION {[K -> Lifetimes] : K \in SUBSET keys}
StoredCredentials(b) ==
    LET inst == CHOOSE i \in Installations : TRUE
        keys == IF b = "ledger" THEN {LedgerTokenKey(u) : u \in Users}
                ELSE {TokenKey(u, inst) : u \in Users}
    IN {[k \in DOMAIN f |-> GrantedFor(k[2], f[k])] : f \in Credentials(keys)}

TokenInit ==
    /\ build \in TxnBuilds
    /\ IF build = "ledger"
       THEN storage = EmptyStorage /\ tokens \in StoredCredentials(build)
       ELSE storage \in StoredCredentials(build) /\ tokens = EmptyStorage
    /\ now = 0
    /\ reviews = {}
    /\ last = NoReply
    /\ steps = 0
    /\ procs = [p \in Slots |-> Idle]
    /\ gate = NoSlot
    /\ got = NoAccess
    /\ peer = EmptyStorage
    /\ routed = NoName
    /\ hook = NoDelivery

TokenNext ==
    \/ \E u \in Users, i \in Installations : LookupToken(u, i)
    \/ \E u \in Users : TokenGet(u)
    \/ \E u \in PreAuthorized, e \in ExpiresIn, i \in Installations :
          StoreToken(u, Regranted(u), Regranted(u), e, i)
    \/ \E u \in PreAuthorized, e \in ExpiresIn :
          TokenPut(u, Regranted(u), Regranted(u), e)
    \/ Tick

TokenSpec == TokenInit /\ [][TokenNext]_vars

(* ----------------- the worker routes (RouteSpec) ----------------------- *)
(* The worker picks the Durable Object instance of a request by name.      *)
(* storage is the instance of the first installation (keyed) or of         *)
(* BoxRepo (ledger); peer is the instance of any other installation or     *)
(* repository; tokens is the instance named 'tokens'.                      *)
\* payload.installation.id of the webhooks, state of the OAuth callbacks
RouteInstallations == Installations \cup {2}

\* GET /oauth/callback?code&state of the keyed worker: state is the
\* installation id and names the instance that stores the token
OAuthCallback(userId, expires_in, state) ==
    LET installationId == state
        name == InstallationName(installationId)
    IN
    /\ build = "keyed"
    /\ steps < MaxSteps
    /\ HandleStoreToken(name, InstanceStorage(name), userId, Granted(userId),
                        Granted(userId), expires_in, installationId)

\* POST /webhook of the keyed worker with an /escrow-approve comment:
\* payload.installation.id names the instance that processes it
EscrowWebhook(userA, prNumber, repoFullName, prAuthor, installationId) ==
    LET name == InstallationName(installationId) IN
    /\ build = "keyed"
    /\ steps < MaxSteps
    /\ HandleProcessEscrow(name, InstanceStorage(name), userA, prNumber, repoFullName,
                           prAuthor, installationId)

\* GET /oauth/callback?code of the ledger worker: PUT /token/<login> on the
\* instance named 'tokens'
LedgerOAuthCallback(login, expires_in) ==
    /\ build = "ledger"
    /\ steps < MaxSteps
    /\ Routed(TokensName, tokens,
              UpsertToken(tokens, LedgerTokenKey(login),
                          [access |-> Granted(login), refresh |-> Granted(login),
                           expires |-> now + expires_in * 1000]),
              reviews,
              Reply("token-put", login, NoUser, 0, "", "ok", "TokenStored",
                    NoKey, NoPledge, {}, {}, {}))

\* POST /webhook of the ledger worker: payload.repository.full_name names
\* the instance that takes the pledge; the tokens come from 'tokens'
LedgerWebhook(user, target, prNumber, repo) ==
    LET name == RepoName(repo) IN
    /\ build = "ledger"
    /\ steps < MaxSteps
    /\ HandleWebhook(name, InstanceStorage(name), tokens, user, target, prNumber, repo)

RouteBuilds == {"keyed", "ledger"}
\* the tokens of two users who went through /oauth/callback for the peer
\* installation at time 0
AuthorizedPeer(b) ==
    IF b = "ledger" THEN EmptyStorage
    ELSE [k \in {TokenKey(u, i) : u \in PreAuthorized, i \in RouteInstallations \ Installations}
            |-> GrantedAtStart(k[2])]
\* the tokens of the same users with a lifetime of 240 seconds
ShortLivedTokens(b) ==
    IF b = "ledger"
    THEN [k \in {LedgerTokenKey(u) : u \in PreAuthorized} |-> ShortLived(k[2])]
    ELSE EmptyStorage

RouteInit ==
    /\ build \in RouteBuilds
    /\ \/ storage = EmptyStorage /\ peer = EmptyStorage /\ tokens = EmptyStorage
       \/ /\ storage = AuthorizedStorage(build)
          /\ peer = AuthorizedPeer(build)
          /\ tokens \in {AuthorizedTokens(build), ShortLivedTokens(build)}
    /\ now = 0
    /\ reviews = {}
    /\ last = NoReply
    /\ steps = 0
    /\ procs = [p \in Slots |-> Idle]
    /\ gate = NoSlot
    /\ got = NoAccess
    /\ routed = NoName
    /\ hook = NoDelivery

RouteNext ==
    \/ \E u \in Users, e \in ExpiresIn, i \in RouteInstallations :
          OAuthCallback(u, e, i)
    \/ \E userA \in Users, it \in Items, prAuthor \in Users \cup {NoUser},
          i \in RouteInstallations :
          EscrowWebhook(userA, it[1], it[2], prAuthor, i)
    \/ \E login \in Users, e \in ExpiresIn :
          LedgerOAuthCallback(login, e)
    \/ \E user \in Users, target \in Users \cup {NoUser}, it \in Items :
          LedgerWebhook(user, target, it[1], it[2])
    \/ Tick

RouteSpec == RouteInit /\ [][RouteNext]_vars

(* ----------------- webhook deliveries (HookSpec) ----------------------- *)
(* hook is the webhook request that arrived last: the x-github-event       *)
(* header, the x-hub-signature-256 header and the parsed body. A comment   *)
(* body is a sequence of chunks of characters.                             *)
\* env.GITHUB_WEBHOOK_SECRET / env.APP_SECRET, and a key of somebody else
WebhookSecret == "secret"
OtherSecret == "guess"
\* the hex digest of HMAC-SHA-256 over the body under the key
HmacHex(key, body) == <<key, body>>
\* request.headers.get("x-hub-signature-256") when the header is missing
NoSignature == <<>>

\* String.prototype.trim on a sequence of chunks
RECURSIVE TrimStart(_)
TrimStart(str) ==
    IF str # <<>> /\ Head(str) = " " THEN TrimStart(Tail(str)) ELSE str
RECURSIVE TrimEnd(_)
TrimEnd(str) ==
    IF str # <<>> /\ str[Len(str)] = " " THEN TrimEnd(SubSeq(str, 1, Len(str) - 1)) ELSE str
Trim(str) == TrimEnd(TrimStart(str))
\* String.prototype.startsWith
StartsWith(str, prefix) ==
    Len(str) >= Len(prefix) /\ SubSeq(str, 1, Len(prefix)) = prefix
EscrowApprove == <<"/escrow-approve">>

\* utils.verifyGitHubSignature(body, signature, secret): the header with
\* "sha256=" taken out is the expected hex digest
VerifyGitHubSignature(body, signature, secret) ==
    signature.hex = HmacHex(secret, body)
\* helpers.verifyGitHubSignature(req, secret): the header, '' when it is
\* missing, is `sha256=${hex}`
HelpersVerifyGitHubSignature(body, signature, secret) ==
    /\ signature # NoSignature
    /\ signature.prefix = "sha256="
    /\ signature.hex = HmacHex(secret, body)

\* the users and pull requests of the deliveries: one pull request each
HookUsers == {1, 2}
HookItem(author) == IF author = 1 THEN <<1, "r1">> ELSE <<2, "r1">>
Comments ==
    {<<"/escrow-approve">>, <<" ", "/escrow-approve", " ">>, <<"/escrow-approve", "d">>,
     <<"lgtm", " ", "/escrow-approve">>, <<"lgtm">>}
\* the parsed body: payload.action, payload.comment.body,
\* payload.comment.user, payload.issue.user, payload.issue.pull_request
Payload(action, comment, user, author, pull_request) ==
    [action |-> action, comment |-> comment, user |-> user, author |-> author,
     pull_request |-> pull_request]
\* a comment with the command that `user` created on a pull request of
\* `author`, and the bodies that differ from it in one part
CommandPayload(user, author) == Payload("created", EscrowApprove, user, author, TRUE)
Payloads(user, author) ==
    {Payload("created", c, user, author, TRUE) : c \in Comments}
    \cup {Payload("edited", EscrowApprove, user, author, TRUE),
          Payload("created", EscrowApprove, user, author, FALSE)}
\* a body that was delivered and signed earlier
ReplayedPayload == Payload("created", <<"lgtm">>, 1, 1, TRUE)
\* what GitHub sends as x-hub-signature-256 for a body, and the other
\* headers a sender can make up
Signed(body) == [prefix |-> "sha256=", hex |-> HmacHex(WebhookSecret, body)]
Signatures(body) ==
    {NoSignature, Signed(body), Signed(ReplayedPayload),
     [prefix |-> "sha256=", hex |-> HmacHex(OtherSecret, body)],
     [prefix |-> "", hex |-> HmacHex(WebhookSecret, body)]}
Delivery(event, signature, payload) ==
    [event |-> event, signature |-> signature, payload |-> payload]
\* the requests: signed by GitHub with any of the bodies, or the command
\* under another event type or another signature header
Deliveries ==
    UNION {LET command == CommandPayload(p[1], p[2]) IN
           {Delivery("issue_comment", Signed(b), b) : b \in Payloads(p[1], p[2])}
           \cup {Delivery("pull_request_review", Signed(command), command)}
           \cup {Delivery("issue_comment", sg, command) : sg \in Signatures(command)} :
           p \in {q \in HookUsers \X HookUsers : q[1] # q[2]}}

\* a POST /webhook request arrives
Receive(d) ==
    /\ steps < MaxSteps
    /\ hook' = d
    /\ UNCHANGED <<build, storage, tokens, now, reviews, last, steps, procs, gate, got,
                   peer, routed>>

\* the response of a webhook route that reached no instance
HookReply(d, type, variant) ==
    Reply("webhook", d.payload.user, d.payload.author, HookItem(d.payload.author)[1],
          HookItem(d.payload.author)[2], type, variant, NoKey, NoPledge, {}, {}, {})

\* POST /webhook of the keyed worker on the request that arrived
KeyedWebhook ==
    LET d == hook
        installationId == CHOOSE i \in Installations : TRUE
        name == InstallationName(installationId)
        comment == Trim(d.payload.comment)
    IN
    /\ build = "keyed"
    /\ steps < MaxSteps
    /\ d # NoDelivery
    /\ IF d.signature = NoSignature
          \/ ~VerifyGitHubSignature(d.payload, d.signature, WebhookSecret) THEN
          RespondWorker(storage, tokens, reviews, HookReply(d, "401", "Invalid signature"))
       ELSE IF d.event # "issue_comment" THEN
          RespondWorker(storage, tokens, reviews, HookReply(d, "200", "OK"))
       ELSE IF d.payload.action # "created" THEN
          RespondWorker(storage, tokens, reviews, HookReply(d, "200", "OK"))
       ELSE IF ~StartsWith(comment, EscrowApprove) THEN
          RespondWorker(storage, tokens, reviews, HookReply(d, "200", "OK"))
       ELSE
          HandleProcessEscrow(name, InstanceStorage(name), d.payload.user,
                              HookItem(d.payload.author)[1], HookItem(d.payload.author)[2],
                              d.payload.author, installationId)

\* POST /webhook of the ledger worker on the request that arrived
HelpersWebhook ==
    LET d == hook
        body == Trim(d.payload.comment)
        repo == HookItem(d.payload.author)[2]
        name == RepoName(repo)
    IN
    /\ build = "ledger"
    /\ steps < MaxSteps
    /\ d # NoDelivery
    /\ IF ~HelpersVerifyGitHubSignature(d.payload, d.signature, WebhookSecret) THEN
          RespondWorker(storage, tokens, reviews, HookReply(d, "401", "bad sig"))
       ELSE IF d.event # "issue_comment" THEN
          RespondWorker(storage, tokens, reviews, HookReply(d, "200", "ok"))
       ELSE IF ~StartsWith(body, EscrowApprove) THEN
          RespondWorker(storage, tokens, reviews, HookReply(d, "200", "ok"))
       ELSE IF ~d.payload.pull_request THEN
          RespondWorker(storage, tokens, reviews, HookReply(d, "200", "ok"))
       ELSE
          HandleWebhook(name, InstanceStorage(name), tokens, d.payload.user,
                        d.payload.author, HookItem(d.payload.author)[1], repo)

HookInit ==
    /\ build \in RouteBuilds
    /\ storage = AuthorizedStorage(build)
    /\ tokens = AuthorizedTokens(build)
    /\ now = 0
    /\ reviews = {}
    /\ last = NoReply
    /\ steps = 0
    /\ procs = [p \in Slots |-> Idle]
    /\ gate = NoSlot
    /\ got = NoAccess
    /\ peer = AuthorizedPeer(build)
    /\ routed = NoName
    /\ hook = NoDelivery

HookNext ==
    \/ \E d \in Deliveries : Receive(d)
    \/ KeyedWebhook
    \/ HelpersWebhook

HookSpec == HookInit /\ [][HookNext]_vars

(* ----------------- lookups in flight (RefreshSpec) --------------------- *)
(* Two credential lookups on one instance, a step per stretch between the  *)
(* points where a lookup waits for the identity provider. getUserToken of  *)
(* the keyed build runs inside the storage.transaction closure of its      *)
(* command; GET /token/<login> of the ledger build runs in no transaction  *)
(* and the instance takes the next request while the fetch is awaited.     *)
\* a lookup: where it stands, whose token it is for and the record it read
Lookup(pc, user, inst, rec) == [pc |-> pc, user |-> user, inst |-> inst, rec |-> rec]

\* getUserToken up to await refreshUserToken(tokenData.refresh)
BeginLookup(p, userId, installationId) ==
    LET k == UserTokenKey(userId, installationId) IN
    /\ build = "keyed"
    /\ procs[p].pc \in {"idle", "done"}
    /\ GateOpen(gate)
    /\ IF Has(storage, k) /\ NeedsRefresh(storage[k], now) THEN
          TxnStep(storage, tokens, reviews, TxnHolder(p), p,
                  Lookup("refreshing", userId, installationId, storage[k]))
       ELSE
          TxnStep(storage, tokens, reviews, gate, p,
                  Lookup("done", userId, installationId, GrantedFor(NoUser, 0)))

\* refreshUserToken settles: the put or the catch, and the closure ends
FinishRefresh(p) ==
    LET pr == procs[p] IN
    /\ build = "keyed"
    /\ pr.pc = "refreshing"
    /\ \E rA \in RefreshChoices(storage, pr.user, pr.inst, now) :
         TxnStep(GetUserToken(storage, pr.user, pr.inst, now, rA).storage, tokens, reviews,
                 NoSlot, p, [pr EXCEPT !.pc = "done"])

\* GET /token/<login> up to await fetch(.../user-access-token)
TokenRequest(p, user) ==
    LET k == LedgerTokenKey(user) IN
    /\ build = "ledger"
    /\ procs[p].pc \in {"idle", "done"}
    /\ IF Has(tokens, k) /\ LedgerRefreshCalls(tokens, user, now) = 1 THEN
          TxnStep(storage, tokens, reviews, gate, p, Lookup("refreshing", user, 0, tokens[k]))
       ELSE
          TxnStep(storage, tokens, reviews, gate, p,
                  Lookup("done", user, 0, GrantedFor(NoUser, 0)))

\* the fetch settles: rec is built from the answer and put, whatever was
\* stored in the meantime
TokenResponse(p) ==
    LET pr == procs[p]
        read == Put(tokens, LedgerTokenKey(pr.user), pr.rec)
    IN
    /\ build = "ledger"
    /\ pr.pc = "refreshing"
    /\ \E upd \in LedgerRefreshChoices(read, pr.user, now) :
         TxnStep(storage,
                 IF upd.threw THEN tokens
                 ELSE LedgerGetToken(read, pr.user, now, upd).storage,
                 reviews, gate, p, [pr EXCEPT !.pc = "done"])

\* two users authorized at time 0, each for 4 or for 10 minutes
RefreshLifetimes == {240, 600}
RefreshCredentials(b) ==
    LET inst == CHOOSE i \in Installations : TRUE
        keys == IF b = "ledger" THEN {LedgerTokenKey(u) : u \in PreAuthorized}
                ELSE {TokenKey(u, inst) : u \in PreAuthorized}
    IN {[k \in keys |-> GrantedFor(k[2], f[k])] : f \in [keys -> RefreshLifetimes]}

RefreshInit ==
    /\ build \in TxnBuilds
    /\ IF build = "ledger"
       THEN storage = EmptyStorage /\ tokens \in RefreshCredentials(build)
       ELSE storage \in RefreshCredentials(build) /\ tokens = EmptyStorage
    /\ now = 0
    /\ reviews = {}
    /\ last = NoReply
    /\ steps = 0
    /\ procs = [p \in Slots |-> Idle]
    /\ gate = NoSlot
    /\ got = NoAccess
    /\ peer = EmptyStorage
    /\ routed = NoName
    /\ hook = NoDelivery

RefreshNext ==
    \/ \E p \in Slots, u \in PreAuthorized, i \in Installations : BeginLookup(p, u, i)
    \/ \E p \in Slots : FinishRefresh(p)
    \/ \E p \in Slots, u \in PreAuthorized : TokenRequest(p, u)
    \/ \E p \in Slots : TokenResponse(p)

RefreshSpec == RefreshInit /\ [][RefreshNext]_vars

(* ------------- the two match-or-create side by side (PairSpec) --------- *)
(* Every command goes to POST /process-escrow of an instance of escrow.ts  *)
(* (storage) and then, as {user, target, prNumber, repo}, to POST /pledge  *)
(* of an instance of part_004 (peer). The commands are those between       *)
(* distinct users whose stored credentials are not due for a refresh, and  *)
(* the approval client accepts every approval. last is the answer of       *)
(* /process-escrow and procs[PledgeSlot].r that of /pledge.                *)
PledgeSlot == CHOOSE p \in Slots : \A q \in Slots : p >= q

\* the stored credential of the user needs no refresh
ValidCredential(s, userId, installationId, t) ==
    /\ Has(s, UserTokenKey(userId, installationId))
    /\ ~NeedsRefresh(s[UserTokenKey(userId, installationId)], t)

\* POST /process-escrow on the instance of escrow.ts
PairProcessEscrow(userA, prNumber, repoFullName, prAuthor, installationId) ==
    LET name == InstallationName(installationId) IN
    /\ steps < MaxSteps
    /\ routed # name
    /\ userA # prAuthor
    /\ ValidCredential(storage, userA, installationId, now)
    /\ ValidCredential(storage, prAuthor, installationId, now)
    /\ HandleProcessEscrow(name, storage, userA, prNumber, repoFullName, prAuthor,
                           installationId)
    /\ last'.variant # "ApprovalFailed"

\* POST /pledge on the instance of part_004 with the command that
\* /process-escrow just answered
PairPledge ==
    LET t == PledgeTxn(peer, last.user, last.target, last.prNumber, last.repo, now)
        variant == IF t.key = NoKey THEN "Created" ELSE "Matched"
    IN
    /\ routed = HomeName(build)
    /\ peer' = t.storage
    /\ routed' = RepoName(last.repo)
    /\ procs' = [procs EXCEPT ![PledgeSlot] =
                    Proc("done", 0, NoToken, NoToken,
                         Reply("pledge", last.user, last.target, last.prNumber, last.repo,
                               "ok", variant, t.key, t.match, {}, {}, {}))]
    /\ UNCHANGED <<build, storage, tokens, now, reviews, last, steps, gate, got, hook>>

\* every user went through /oauth/callback at time 0
PairStorage ==
    LET inst == CHOOSE i \in Installations : TRUE IN
    [k \in {TokenKey(u, inst) : u \in Users} |-> GrantedAtStart(k[2])]

PairInit ==
    /\ build = "keyed"
    /\ storage = PairStorage
    /\ tokens = EmptyStorage
    /\ now = 0
    /\ reviews = {}
    /\ last = NoReply
    /\ steps = 0
    /\ procs = [p \in Slots |-> Idle]
    /\ gate = NoSlot
    /\ got = NoAccess
    /\ peer = EmptyStorage
    /\ routed = NoName
    /\ hook = NoDelivery

PairNext ==
    \/ \E userA \in Users, it \in Items, prAuthor \in Users, i \in Installations :
          PairProcessEscrow(userA, it[1], it[2], prAuthor, i)
    \/ PairPledge
    \/ Tick /\ routed # HomeName(build)

PairSpec == PairInit /\ [][PairNext]_vars

(* ------------------------------ properties ---------------------------- *)
IsCommand(r) == r.op \in {"process-escrow", "webhook"}
\* a step that handles a request: the clock stands still
RequestStep == steps' # steps /\ now' = now
\* a step that handles an /escrow-approve command (last' is its response)
CommandStep == RequestStep /\ IsCommand(last')
Completed(r) == r.variant \in {"MutualApprovalCompleted", "Matched"}
Created(r) == r.variant \in {"PledgeCreated", "Created"}
PledgeKeys(s) == {k \in DOMAIN s : k[1] \in {"pledge", "pledges"}}
Ledger(s) == [k \in PledgeKeys(s) |-> s[k]]
\* the stored pledges of `offeror` that a command of `target` on a pull
\* request of `offeror` is to find: the entry keyed offeror:target, and in
\* the scan build, whose keys name no target, every pledge of `offeror`
PledgesOfPair(b, s, offeror, target) ==
    IF b = "keyed" THEN {<<"pledge", offeror, target>>} \cap DOMAIN s
    ELSE IF b = "ledger" THEN {<<"pledges", offeror, target>>} \cap DOMAIN s
    ELSE {k \in DOMAIN s : k[1] = "pledge" /\ k[2] = offeror}
\* no token is stored for the user
NoCredential(b, s, tk, u) ==
    IF b = "ledger" THEN <<"token", u>> \notin DOMAIN tk
    ELSE \A i \in Installations : <<"token", u, i>> \notin DOMAIN s
\* last is the response to a command that created a pledge between distinct
\* users and that pledge is the only one stored; the step handles the
\* reverse command
RoundTripStep ==
    /\ CommandStep
    /\ IsCommand(last) /\ Created(last) /\ last.user # last.target
    /\ Cardinality(PledgeKeys(storage)) = 1
    /\ last'.user = last.target /\ last'.target = last.user

\* C1: a step that completes a mutual approval consumes the pledge it
\* matched: the pledge is stored before the step and gone after it, so no
\* later command completes from that pledge again unless its offeror has
\* pledged anew.
NoDuplicateMatch ==
    [][(CommandStep /\ Completed(last')) =>
         /\ last'.matched \in PledgesOfPair(build, storage, last'.target, last'.user)
         /\ ~Has(storage', last'.matched)]_vars
NoDuplicateMatchWitness ==
    /\ build = "keyed"
    /\ last.variant = "MutualApprovalCompleted"
    /\ ~Has(storage, last.matched)

\* C2: when a command finds the reverse pledge, both approvals take effect
\* or neither does: never exactly one of the two.
BothOrNeitherApproved ==
    (IsCommand(last) /\ last.matched # NoKey) => Cardinality(last.approved) # 1

\* C3: after a command (a->b, item n) created the only pledge of the
\* partition, the next command (b->a) finds it, and the partner data are
\* those of the first command: item number n in the first command's repo.
RoundTripPartner ==
    [][RoundTripStep =>
         /\ last'.matched # NoKey
         /\ last'.partner.prNumber = last.prNumber
         /\ last'.partner.repo = last.repo]_vars
RoundTripPartnerWitness ==
    /\ last.variant = "MutualApprovalCompleted"
    /\ last.partner.prNumber # last.prNumber
    /\ last.partner.repo # last.repo
    /\ last.partner.repo # ""

\* C4: when the reverse command of a round trip on a partition with no
\* other pledge completes the mutual approval, no pledge is left.
RoundTripEmpties ==
    [][(RoundTripStep /\ Completed(last')) => PledgeKeys(storage') = {}]_vars
RoundTripEmptiesWitness ==
    /\ Completed(last)
    /\ last.matched = <<"pledge", last.target, last.user>>
    /\ PledgeKeys(storage) = {}
    /\ steps = 2

\* C5: a command that finds no pledge of its target makes no call to the
\* approval client and no review appears.
NoMatchNoApproval ==
    [][(CommandStep /\ PledgesOfPair(build, storage, last'.target, last'.user) = {}) =>
         (last'.calls = {} /\ reviews' = reviews)]_vars
NoMatchNoApprovalWitness ==
    /\ last.op = "process-escrow"
    /\ last.variant = "PledgeCreated"
    /\ last.calls = {}
    /\ reviews # {}

\* C6: a command of a user on the user's own pull request is answered
\* SelfApprovalRejected and leaves every pledge as it was.
SelfApprovalRejected ==
    [][(CommandStep /\ last'.user = last'.target) =>
         (last'.variant = "SelfApprovalRejected" /\ Ledger(storage') = Ledger(storage))]_vars

\* C7: a command answered AuthorUnknown has changed no stored entry.
AuthorUnknownNoMutation ==
    [][(CommandStep /\ last'.target = NoUser /\ last'.variant = "AuthorUnknown") =>
         (storage' = storage /\ tokens' = tokens)]_vars

\* C8: when a command (a->b) that created a pledge follows a command (a->b)
\* that created one, exactly one pledge of a for b is stored and it carries
\* the second command's item, which is what a match by b gets.
LastWriteWins ==
    [][(CommandStep /\ IsCommand(last) /\ Created(last) /\ Created(last')
          /\ last'.user = last.user /\ last'.target = last.target
          /\ last.user # last.target) =>
         LET ks == PledgesOfPair(build, storage', last'.user, last'.target) IN
         /\ Cardinality(ks) = 1
         /\ \A k \in ks : /\ storage'[k].prNumber = last'.prNumber
                          /\ storage'[k].repo = last'.repo]_vars

\* a valid command of a user who has no stored token, with no pledge of
\* the target to find
UnauthorizedOfferStep ==
    /\ CommandStep
    /\ last'.target # NoUser /\ last'.user # last'.target
    /\ NoCredential(build, storage, tokens, last'.user)
    /\ PledgesOfPair(build, storage, last'.target, last'.user) = {}

UnauthorizedMatchStep ==
    /\ CommandStep
    /\ last'.target # NoUser /\ last'.user # last'.target
    /\ PledgesOfPair(build, storage, last'.target, last'.user) # {}
    /\ \/ NoCredential(build, storage, tokens, last'.user)
       \/ NoCredential(build, storage, tokens, last'.target)

Owner(token) == token[1]
InFlight(p) == procs[p].pc \in {"tokens", "approving", "writing"}
\* the request of slot p found a pledge and holds it as its match: it is
\* still at work on it or has used it up
HoldsMatch(p) ==
    /\ procs[p].r.matched # NoKey
    /\ procs[p].r.variant \notin {"AwaitingAuthorization", "ApprovalFailed", "InternalError"}
SameCommand(p, q) ==
    /\ procs[p].r.user = procs[q].r.user
    /\ procs[p].r.target = procs[q].r.target
    /\ procs[p].r.prNumber = procs[q].r.prNumber
    /\ procs[p].r.repo = procs[q].r.repo
\* the stored token of the user is inside the refresh margin
Due(b, s, tk, u, t) ==
    IF b = "ledger"
    THEN /\ <<"token", u>> \in DOMAIN tk
         /\ tk[<<"token", u>>].expires # NaN
         /\ t > tk[<<"token", u>>].expires - 300000
    ELSE \E i \in Installations :
            /\ <<"token", u, i>> \in DOMAIN s
            /\ t > s[<<"token", u, i>>].expires - 300000
\* the request of slot p waits on the identity provider or on the approval
\* client
ExternalCall(p) ==
    \/ procs[p].pc = "approving"
    \/ /\ procs[p].pc = "tokens"
       /\ \/ Due(build, storage, tokens, procs[p].r.user, now)
          \/ /\ procs[p].r.matched # NoKey
             /\ Due(build, storage, tokens, procs[p].r.target, now)

LookupStep == steps' = steps /\ now' = now /\ got'.op # "none"
\* the credential store of the build and the key of a user's credential
CredStore(b, s, tk) == IF b = "ledger" THEN tk ELSE s
CredKey(b, u) ==
    IF b = "ledger" THEN <<"token", u>> ELSE <<"token", u, CHOOSE i \in Installations : TRUE>>

\* C18: a lookup of a stored credential calls the identity provider once
\* when now > expires - 5 minutes and not at all otherwise: once for a
\* credential expiring in 4 minutes, never for one expiring in 10; without
\* a call the credential stays as it is and its access token is returned,
\* and after a call that yields a token the stored expiry is now plus a
\* lifetime the identity provider reports.
RefreshBoundary ==
    [][LookupStep =>
         LET k == CredKey(build, got'.user)
             old == CredStore(build, storage, tokens)
             new == CredStore(build, storage', tokens')
         IN k \in DOMAIN old =>
              LET due == old[k].expires # NaN /\ now > old[k].expires - 5 * 60 * 1000 IN
              /\ got'.refreshes = IF due THEN 1 ELSE 0
              /\ old[k].expires = now + 4 * 60 * 1000 => got'.refreshes = 1
              /\ old[k].expires = now + 10 * 60 * 1000 => got'.refreshes = 0
              /\ ~due => (new = old /\ got'.token = old[k].access)
              /\ (due /\ got'.token # NoToken) =>
                    /\ \E e \in ExpiresIn : new[k].expires = now + e * 1000
                    /\ new[k].access = got'.token]_vars
RefreshBoundaryWitness ==
    /\ build = "keyed"
    /\ got.refreshes = 1
    /\ got.token = Refreshed(got.user)
    /\ CredKey(build, got.user) \in DOMAIN storage
    /\ storage[CredKey(build, got.user)].expires = now + 600 * 1000
    /\ \E u \in Users \ {got.user} :
          /\ CredKey(build, u) \in DOMAIN storage
          /\ storage[CredKey(build, u)].access = Granted(u)

\* C19: a lookup that hands out an access token leaves the credential it
\* comes from valid for at least 5 more minutes.
ValidForMargin ==
    [][(LookupStep /\ got'.token # NoToken) =>
         LET k == CredKey(build, got'.user)
             new == CredStore(build, storage', tokens')
         IN new[k].expires >= now + 5 * 60 * 1000]_vars

\* C20: a lookup whose refresh call fails answers not authorized (null, or
\* 404 from the route) and leaves the stored credentials as they were.
RefreshFailureKeepsCredential ==
    [][(LookupStep /\ got'.refreshes = 1 /\ got'.token = NoToken) =>
         /\ got'.status \in {0, 404}
         /\ storage' = storage
         /\ tokens' = tokens]_vars

\* C21: after a lookup whose refresh yields a token, the stored credential
\* holds the refreshed access token, which is the one returned, and an
\* expiry of now plus the reported lifetime; its refresh token is the new
\* one the response supplied or else the one held before.
RefreshReplacesCredential ==
    [][(LookupStep /\ got'.refreshes = 1 /\ got'.token # NoToken) =>
         LET u == got'.user
             k == CredKey(build, u)
             old == CredStore(build, storage, tokens)
             new == CredStore(build, storage', tokens')
         IN /\ new[k].access = <<u, 2>>
            /\ got'.token = new[k].access
            /\ \E e \in ExpiresIn : new[k].expires = now + e * 1000
            /\ new[k].refresh \in {<<u, 2>>, old[k].refresh}]_vars

\* C22: a lookup for a user with no stored credential yields no token as a
\* value: the caller gets no exception, the identity provider is not
\* called and nothing is written.
AbsentIsNotAuthorized ==
    [][(LookupStep
          /\ CredKey(build, got'.user) \notin DOMAIN CredStore(build, storage, tokens)) =>
         /\ got'.token = NoToken
         /\ ~got'.fault
         /\ got'.refreshes = 0
         /\ storage' = storage
         /\ tokens' = tokens]_vars

\* a step that stores a credential (last' is its acknowledgment)
StoreStep ==
    /\ RequestStep
    /\ last'.op \in {"store-token", "token-put"}
    /\ last'.variant = "TokenStored"

StoreIsUpsert ==
    [][/\ StoreStep =>
            LET u == last'.user
                k == CredKey(build, u)
                old == CredStore(build, storage, tokens)
                new == CredStore(build, storage', tokens')
            IN /\ k \in DOMAIN new
               /\ new[k].access = <<u, 1>> /\ new[k].refresh = <<u, 1>>
               /\ \E e \in ExpiresIn : new[k].expires = now + e * 1000
               /\ DOMAIN new = DOMAIN old \cup {k}
               /\ \A j \in DOMAIN old \ {k} : new[j] = old[j]
               /\ Ledger(storage') = Ledger(storage)
               /\ build = "ledger" => storage' = storage
               /\ reviews' = reviews
               /\ (k \in DOMAIN old /\ old[k] = new[k]) =>
                     (storage' = storage /\ tokens' = tokens)
       /\ (RequestStep /\ last'.op \in {"store-token", "token-put"}
             /\ last'.variant # "TokenStored") =>
            (storage' = storage /\ tokens' = tokens /\ reviews' = reviews)]_vars
StoreIsUpsertWitness ==
    /\ build = "keyed"
    /\ last.op = "store-token"
    /\ now = 300000
    /\ storage[CredKey(build, last.user)].expires = now + 600 * 1000
    /\ \E u \in Users \ {last.user} :
          /\ CredKey(build, u) \in DOMAIN storage
          /\ storage[CredKey(build, u)].expires = 600 * 1000
    /\ PledgeKeys(storage) # {}

\* what a listing of the stored pledges enumerates
Listing(s) ==
    {<<k[2], k[3], s[k].prNumber, s[k].repo, s[k].createdAt>> : k \in PledgeKeys(s)}
\* C25: the pledge listing answers with exactly the pledges stored, one
\* entry each, and changes neither the ledger nor the credentials.
ListPledgesExact ==
    [][(RequestStep /\ last'.op = "debug-pledges") =>
         /\ last'.type = "ok"
         /\ last'.listed = Listing(storage)
         /\ storage' = storage
         /\ tokens' = tokens
         /\ reviews' = reviews]_vars

\* C26: every command ends in one of the results PledgeCreated (Created),
\* MutualApprovalCompleted (Matched), AwaitingAuthorization,
\* ApprovalFailed, SelfApprovalRejected, AuthorUnknown, and none ends in a
\* fault raised to the caller (no storage failure occurs in Spec).
ClosedResultSet ==
    IsCommand(last) =>
       /\ last.type # "fault"
       /\ last.variant \in {"PledgeCreated", "Created", "MutualApprovalCompleted", "Matched",
                            "AwaitingAuthorization", "ApprovalFailed",
                            "SelfApprovalRejected", "AuthorUnknown"}

CredentialKept(u) ==
    LET k == CredKey(build, u)
        old == CredStore(build, storage, tokens)
        new == CredStore(build, storage', tokens')
    IN (k \in DOMAIN old <=> k \in DOMAIN new) /\ (k \in DOMAIN old => new[k] = old[k])
\* C30: AwaitingAuthorization on a match names the commenter, the target
\* or both, and exactly those whose token could not be had: a party with
\* no stored credential is named, a party whose credential is stored and
\* not due for a refresh is not, and a party named for a credential that
\* was due has had its refresh fail (the credential is as before).
AwaitingNamesMissing ==
    [][(CommandStep /\ last'.variant = "AwaitingAuthorization" /\ last'.matched # NoKey) =>
         /\ last'.who # {}
         /\ last'.who \subseteq {last'.user, last'.target}
         /\ \A u \in {last'.user, last'.target} :
              /\ NoCredential(build, storage, tokens, u) => u \in last'.who
              /\ (~NoCredential(build, storage, tokens, u)
                    /\ ~Due(build, storage, tokens, u, now)) => u \notin last'.who
              /\ u \in last'.who =>
                    /\ NoCredential(build, storage, tokens, u)
                          \/ Due(build, storage, tokens, u, now)
                    /\ CredentialKept(u)]_vars
AwaitingNamesMissingWitness ==
    /\ build = "keyed"
    /\ last.variant = "AwaitingAuthorization"
    /\ last.matched # NoKey
    /\ last.who = {last.target}
    /\ ~NoCredential(build, storage, tokens, last.user)
    /\ ~NoCredential(build, storage, tokens, last.target)

\* C29: the ledger changes only by a command and by one entry at a time.
\* An entry appears only as the pledge of a command (X->Y) that found no
\* pledge of Y for X; it is replaced only by a further command (X->Y),
\* which adds no second entry; it disappears only as the match of a
\* command (Y->X): the pledge that X made for Y, alone in the ledger, is
\* not removed by the command of anyone but Y on an item of X. Clock
\* advances, credential stores and listings leave the ledger as it is.
PledgeTransitions ==
    [][LET before == PledgeKeys(storage)
           after == PledgeKeys(storage')
           removed == before \ after
           added == after \ before
           changed == {k \in before \cap after : storage'[k] # storage[k]}
       IN /\ (removed \cup added \cup changed # {}) => CommandStep
          /\ Cardinality(removed \cup added \cup changed) <= 1
          /\ (added # {}) =>
                /\ Created(last')
                /\ added \subseteq PledgesOfPair(build, storage', last'.user, last'.target)
                /\ PledgesOfPair(build, storage, last'.target, last'.user) = {}
          /\ (changed # {}) =>
                /\ Created(last')
                /\ changed \subseteq PledgesOfPair(build, storage, last'.user, last'.target)
          /\ (removed # {}) =>
                /\ last'.matched \in removed
                /\ removed \subseteq PledgesOfPair(build, storage, last'.target, last'.user)
          /\ (IsCommand(last) /\ Created(last) /\ last.user # last.target
                /\ Cardinality(before) = 1) =>
                /\ (removed # {}) => (last'.user = last.target /\ last'.target = last.user)
                /\ (CommandStep /\ Created(last') /\ last'.user = last.user
                      /\ last'.target = last.target) => Cardinality(after) = 1]_vars

(* ------------------- properties of the worker routes ------------------- *)
\* the credential that commands routed to the instance `name` consult for
\* the user: that of the installation so named
ConsultedKeys(name, u) ==
    {UserTokenKey(u, i) : i \in {j \in RouteInstallations : InstallationName(j) = name}}

\* C28: partitions are independent. A request routed to one instance
\* leaves the storage of every other instance as it was; the pledge a
\* command matches was stored in the instance the command was routed to;
\* the tokens a command approves with are credentials of that instance;
\* and a credential stored by the authorization flow is, afterwards, the
\* one that commands routed to the same instance consult for that user.
PartitionsIndependent ==
    [][RequestStep =>
         LET name == routed'
             pre == InstanceStorage(name)
             post == IF name = HomeName(build) THEN storage'
                     ELSE IF name = TokensName THEN tokens'
                     ELSE peer'
         IN /\ name # HomeName(build) => storage' = storage
            /\ name # TokensName => tokens' = tokens
            /\ name \in {HomeName(build), TokensName} => peer' = peer
            /\ last'.matched # NoKey => last'.matched \in DOMAIN pre
            /\ \A c \in last'.calls :
                 \E k \in DOMAIN post : k[1] = "token" /\ post[k].access = c[3]
            /\ last'.variant = "TokenStored" =>
                 \E k \in ConsultedKeys(name, last'.user) :
                    Has(post, k) /\ post[k].access = Granted(last'.user)
    ]_vars

(* ---------------------- properties of the lifecycle -------------------- *)
\* C31: a stored credential is never deleted and changes only by a store
\* for its user or by a successful refresh. Every credential of a state is
\* a credential of the next state, and when its record differs the step is
\* a credential store for that user or the new record holds the access
\* token and a lifetime that the identity provider reported.
CredentialsPersist ==
    [][LET old == CredStore(build, storage, tokens)
           new == CredStore(build, storage', tokens')
       IN \A k \in {x \in DOMAIN old : x[1] = "token"} :
            /\ k \in DOMAIN new
            /\ new[k] # old[k] =>
                 \/ StoreStep /\ last'.user = k[2]
                 \/ /\ new[k].access = <<k[2], 2>>
                    /\ \E e \in ExpiresIn : new[k].expires = now + e * 1000
    ]_vars

(* ------------------ properties of the webhook filters ------------------ *)
\* C32: a webhook reaches a partition only if its signature verifies, its
\* event is issue_comment with action created and its trimmed comment
\* starts with /escrow-approve. A request whose signature header is missing
\* or is no digest of its body under the webhook secret is answered 401,
\* and every request that is not such a command leaves the instances, the
\* reviews and the instance looked up last as they were.
WebhookFiltered ==
    [][RequestStep =>
         LET d == hook
             signed == /\ d.signature # NoSignature
                       /\ d.signature.hex = <<"secret", d.payload>>
             command == /\ signed
                        /\ d.event = "issue_comment"
                        /\ d.payload.action = "created"
                        /\ StartsWith(Trim(d.payload.comment), <<"/escrow-approve">>)
         IN /\ ~signed => last'.type = "401"
            /\ ~command => /\ storage' = storage
                           /\ tokens' = tokens
                           /\ peer' = peer
                           /\ reviews' = reviews
                           /\ routed' = routed
    ]_vars

(* ---------------------- properties of the ledger ----------------------- *)
\* C33: the ledger never holds pledges in both directions for two users.
\* In the builds that key a pledge by its pair, the entries of (X, Y) and
\* of (Y, X) are never both stored; and in every build a command of X on a
\* pull request of Y adds a pledge only when Y has no pledge that this
\* command is to find, and then only a pledge of X, so that a command
\* answered AwaitingAuthorization or ApprovalFailed on a match adds none.
NoCrossPledges ==
    /\ [](build # "scan" =>
            \A x, y \in Users :
               x # y => ~(/\ {<<"pledge", x, y>>, <<"pledges", x, y>>} \cap DOMAIN storage # {}
                          /\ {<<"pledge", y, x>>, <<"pledges", y, x>>} \cap DOMAIN storage # {}))
    /\ [][(CommandStep /\ PledgeKeys(storage') \ PledgeKeys(storage) # {}) =>
            /\ PledgesOfPair(build, storage, last'.target, last'.user) = {}
            /\ last'.matched = NoKey
            /\ \A k \in PledgeKeys(storage') \ PledgeKeys(storage) :
                  /\ k[2] = last'.user
                  /\ build # "scan" => k[3] = last'.target]_vars
\* the reverse command was rejected on a match: the pledge it found is
\* still stored and the commenter has none
NoCrossPledgesWitness ==
    /\ last.variant \in {"ApprovalFailed", "AwaitingAuthorization"}
    /\ last.matched # NoKey
    /\ last.matched \in DOMAIN storage
    /\ last.user # last.target
    /\ PledgesOfPair(build, storage, last.user, last.target) = {}

\* C34: on account of one stored pledge the approval client is called at
\* most once per side. A command that follows a command answered on a
\* match of the same pledge, the pledge being the same entry with the same
\* data, calls the approval client for no pull request that the earlier
\* command already called it for.
ApprovedOncePerPledge ==
    [][(CommandStep /\ IsCommand(last) /\ last.matched # NoKey
          /\ last'.matched = last.matched /\ last'.partner = last.partner) =>
         \A c \in last'.calls :
            \A c0 \in last.calls : ~(c0[1] = c[1] /\ c0[2] = c[2])]_vars

(* ------------------- properties of lookups in flight ------------------- *)
\* C35: a stored refresh token is never sent to the identity provider by
\* two lookups at once. No two lookups for the same user are both waiting
\* for the identity provider after reading the same stored credential, so
\* that the one that settles last cannot overwrite what the other stored.
NoRefreshRace ==
    \A p, q \in Slots :
       p # q => ~(/\ procs[p].pc = "refreshing"
                  /\ procs[q].pc = "refreshing"
                  /\ procs[p].user = procs[q].user
                  /\ procs[p].rec.refresh = procs[q].rec.refresh)

(* --------------- properties of the two match-or-create ----------------- *)
\* the pledges of a storage: offeror, target, pull request and repository
ItemsPledged(s) ==
    {<<k[2], k[3], s[k].prNumber, s[k].repo>> :
        k \in {x \in DOMAIN s : x[1] \in {"pledge", "pledges"}}}

\* C36: /process-escrow and /pledge agree on the ledger. Once both have
\* answered the same command, either both matched or both did not, a match
\* is the pledge of the same pair with the same pull request and
\* repository, and the two storages hold the same pledges with the same
\* pull requests and repositories.
SameLedger ==
    routed \notin {"", "1"} =>
       LET e == last
           l == procs[2].r
       IN /\ l.user = e.user /\ l.target = e.target
          /\ (e.variant = "MutualApprovalCompleted") <=> (l.variant = "Matched")
          /\ (e.variant = "PledgeCreated") <=> (l.variant = "Created")
          /\ (e.matched # NoKey) <=> (l.matched # NoKey)
          /\ e.matched # NoKey =>
                /\ e.matched[2] = l.matched[2] /\ e.matched[3] = l.matched[3]
                /\ e.partner.prNumber = l.partner.prNumber
                /\ e.partner.repo = l.partner.repo
          /\ ItemsPledged(storage) = ItemsPledged(peer)
\* both matched the same pledge while another pledge stays stored in both
SameLedgerWitness ==
    /\ routed \notin {"", "1"}
    /\ last.variant = "MutualApprovalCompleted"
    /\ procs[2].r.variant = "Matched"
    /\ ItemsPledged(storage) # {}
    /\ ItemsPledged(peer) # {}

====
